---- MODULE Spec2Model ----
(***************************************************************************)
(* A model of sentry-log4rs (src/src/lib.rs): the SentryAppender, its      *)
(* builder, its declarative deserializer and the severity mapping.         *)
(***************************************************************************)
EXTENDS Integers, Sequences, FiniteSets, Bags, TLC

VARIABLES
    pc,        \* where the owner of the appender is: "start", "building", "built", "panicked", "error", "destroyed"
    pending,   \* Option<SentryAppenderBuilder>: the builder value the caller holds
    appender,  \* Option<SentryAppender>: the built appender
    client,    \* the sentry client as the appender sees it: init calls and dropped guards
    captured,  \* bag of the events handed to sentry::capture_event
    how,       \* history: the construction path and the values its caller supplied
    log,       \* history: the append calls that have returned, with what each returned
    threads    \* the append call each thread is in (concurrent specification)

vars == <<pc, pending, appender, client, captured, how, log, threads>>

----------------------------------------------------------------------------
(* Bounds of the model.                                                    *)

\* Number of append calls a behaviour of Spec or SpecConc makes.
MaxAppends == 2

----------------------------------------------------------------------------
(* Rust's Option.                                                          *)

None == <<>>
Some(x) == <<x>>

----------------------------------------------------------------------------
(* log::Level, log::LevelFilter and sentry::Level.                         *)

Level == {"Error", "Warn", "Info", "Debug", "Trace"}

LevelFilter == {"Off"} \cup Level

\* `level as usize`: the order Level and LevelFilter are compared in.
AsUsize(l) ==
    CASE l = "Off"   -> 0
      [] l = "Error" -> 1
      [] l = "Warn"  -> 2
      [] l = "Info"  -> 3
      [] l = "Debug" -> 4
      [] l = "Trace" -> 5

SentryLevel == {"Error", "Warning", "Info", "Debug"}

\* A mutant of level_mapping: Trace is sent as Info.
level_mapping_trace_info(level) ==
    CASE level = "Error" -> "Error"
      [] level = "Warn"  -> "Warning"
      [] level = "Info"  -> "Info"
      [] level = "Debug" -> "Debug"
      [] level = "Trace" -> "Info"

level_mapping(level) ==
    CASE level = "Error" -> "Error"
      [] level = "Warn"  -> "Warning"
      [] level = "Info"  -> "Info"
      [] level = "Debug" -> "Debug"
      [] level = "Trace" -> "Debug"

----------------------------------------------------------------------------
(* Text. A message is the sequence of its UTF-8 bytes.                     *)

\* "boom"
MsgBoom == <<98, 111, 111, 109>>

\* "é" followed by "!" (a two-byte code point, then ASCII)
MsgAccent == <<195, 169, 33>>

Messages == {MsgBoom, MsgAccent}

\* What the pattern field {l} writes.
LevelText(level) ==
    CASE level = "Error" -> <<69, 82, 82, 79, 82>>
      [] level = "Warn"  -> <<87, 65, 82, 78>>
      [] level = "Info"  -> <<73, 78, 70, 79>>
      [] level = "Debug" -> <<68, 69, 66, 85, 71>>
      [] level = "Trace" -> <<84, 82, 65, 67, 69>>

\* Whether the bytes are well-formed UTF-8 (String::from_utf8's check).
RECURSIVE utf8_valid(_)
utf8_valid(b) ==
    IF Len(b) = 0 THEN TRUE
    ELSE LET n == Len(b)
             In(i, lo, hi) == i <= n /\ b[i] >= lo /\ b[i] <= hi
             Cont(i) == In(i, 128, 191)
             Rest(k) == utf8_valid(SubSeq(b, k, n))
         IN  CASE b[1] <= 127                 -> Rest(2)
               [] b[1] >= 194 /\ b[1] <= 223  -> Cont(2) /\ Rest(3)
               [] b[1] = 224                  -> In(2, 160, 191) /\ Cont(3) /\ Rest(4)
               [] b[1] >= 225 /\ b[1] <= 236  -> Cont(2) /\ Cont(3) /\ Rest(4)
               [] b[1] = 237                  -> In(2, 128, 159) /\ Cont(3) /\ Rest(4)
               [] b[1] >= 238 /\ b[1] <= 239  -> Cont(2) /\ Cont(3) /\ Rest(4)
               [] b[1] = 240                  -> In(2, 144, 191) /\ Cont(3) /\ Cont(4) /\ Rest(5)
               [] b[1] >= 241 /\ b[1] <= 243  -> Cont(2) /\ Cont(3) /\ Cont(4) /\ Rest(5)
               [] b[1] = 244                  -> In(2, 128, 143) /\ Cont(3) /\ Cont(4) /\ Rest(5)
               [] OTHER                       -> FALSE

\* String::from_utf8(buf): the same bytes as a String, or an error.
from_utf8(buf) ==
    IF utf8_valid(buf) THEN [ok |-> TRUE, s |-> buf] ELSE [ok |-> FALSE, s |-> <<>>]

----------------------------------------------------------------------------
(* Encoders (Box<dyn Encode>).                                             *)

PatternEncoder(pattern) == [kind |-> "pattern", pattern |-> pattern]

\* A caller's encoder whose encode returns Err.
FailingEncoder == [kind |-> "custom", pattern |-> "err"]

\* A caller's encoder that writes the message in Latin-1: one byte for each
\* code point below 256, "?" for any other. Its output is UTF-8 only when the
\* message is ASCII.
Latin1Encoder == [kind |-> "custom", pattern |-> "latin1"]

RECURSIVE latin1(_)
latin1(b) ==
    IF Len(b) = 0 THEN <<>>
    ELSE IF b[1] <= 127 THEN <<b[1]>> \o latin1(Tail(b))
    ELSE IF b[1] >= 194 /\ b[1] <= 195 /\ Len(b) >= 2
         THEN <<(b[1] - 192) * 64 + (b[2] - 128)>> \o latin1(SubSeq(b, 3, Len(b)))
    ELSE <<63>> \o latin1(Tail(b))

Encoders == {PatternEncoder("{m}"), PatternEncoder("{l} {m}"), FailingEncoder, Latin1Encoder}

\* self.encoder.encode(&mut SimpleWriter(&mut buf), record): whether it
\* succeeded, and the bytes it left in buf.
encode(e, record) ==
    CASE e = PatternEncoder("{m}") ->
            [ok |-> TRUE, buf |-> record.args]
      [] e = PatternEncoder("{l} {m}") ->
            [ok |-> TRUE, buf |-> LevelText(record.level) \o <<32>> \o record.args]
      [] e = FailingEncoder ->
            [ok |-> FALSE, buf |-> <<>>]
      [] e = Latin1Encoder ->
            [ok |-> TRUE, buf |-> latin1(record.args)]

----------------------------------------------------------------------------
(* log::Record and sentry::protocol::Event.                                *)

Opt(S) == {None} \cup {Some(x) : x \in S}

Records ==
    [level : Level, target : {"app"}, args : Messages,
     file : Opt({"a.rs"}), line : Opt({42}), module_path : Opt({"app::db"})]

\* The records the lifecycle and concurrent specifications log: every level,
\* as a record with an ASCII message and every optional field, and as a record
\* with a message that is not ASCII and no optional field.
FewRecords ==
    {r \in Records :
        \/ r.args = MsgBoom /\ r.file # None /\ r.line # None /\ r.module_path # None
        \/ r.args = MsgAccent /\ r.file = None /\ r.line = None /\ r.module_path = None}

EmptyMap == [k \in {} |-> None]

\* BTreeMap::insert
Insert(m, k, v) == [x \in DOMAIN m \cup {k} |-> IF x = k THEN v ELSE m[x]]

\* protocol::value::Value
ValueString(s) == [String |-> s]
ValueNumber(n) == [Number |-> n]

\* sentry::protocol::Event::new(), of which append sets these fields.
Event_new == [level |-> "Error", message |-> None, logger |-> None,
              extra |-> EmptyMap, tags |-> EmptyMap]

\* A mutant of new_event: the line is sent as a string and an absent file as
\* an empty string.
new_event_stringly(level, msg, record) ==
    [level |-> level, message |-> Some(msg), logger |-> Some(record.target),
     extra |-> Insert(Insert(EmptyMap, "file",
                             ValueString(IF record.file = None THEN "" ELSE record.file[1])),
                      "line",
                      ValueString(IF record.line = None THEN "" ELSE "42")),
     tags |-> IF record.module_path = None THEN EmptyMap
              ELSE Insert(EmptyMap, "module_path", record.module_path[1])]

\* The event append builds from the mapped level, the rendered message and
\* the record.
new_event(level, msg, record) ==
    LET e0 == [Event_new EXCEPT !.level = level,
                                !.message = Some(msg),
                                !.logger = Some(record.target)]
        e1 == IF record.file # None
              THEN [e0 EXCEPT !.extra = Insert(@, "file", ValueString(record.file[1]))]
              ELSE e0
        e2 == IF record.line # None
              THEN [e1 EXCEPT !.extra = Insert(@, "line", ValueNumber(record.line[1]))]
              ELSE e1
        e3 == IF record.module_path # None
              THEN [e2 EXCEPT !.tags = Insert(@, "module_path", record.module_path[1])]
              ELSE e2
    IN  e3

----------------------------------------------------------------------------
(* SentryAppender::append, as one call.                                    *)

\* record.level() > self.threshold
below_threshold(self, record) == AsUsize(record.level) > AsUsize(self.threshold)

\* What a call of append does: the result it returns, the event it hands to
\* sentry::capture_event (if it does) and whether it called the encoder.
Dropped == [result |-> "Ok", event |-> None, encoded |-> FALSE]
Failed == [result |-> "Err", event |-> None, encoded |-> TRUE]
Sent(event) == [result |-> "Ok", event |-> Some(event), encoded |-> TRUE]

\* A mutant of append: the message is rendered before the threshold is looked at.
append_render_first(self, record) ==
    LET level == level_mapping(record.level)
        enc == encode(self.encoder, record)
        msg == from_utf8(enc.buf)
    IN  IF ~enc.ok \/ ~msg.ok THEN Failed
        ELSE IF below_threshold(self, record)
        THEN [result |-> "Ok", event |-> None, encoded |-> TRUE]
        ELSE Sent(new_event(level, msg.s, record))

\* A mutant of append: the threshold is exclusive.
append_exclusive(self, record) ==
    IF AsUsize(record.level) >= AsUsize(self.threshold) THEN Dropped
    ELSE LET level == level_mapping(record.level)
             enc == encode(self.encoder, record)
             msg == from_utf8(enc.buf)
         IN  IF ~enc.ok \/ ~msg.ok THEN Failed
             ELSE Sent(new_event(level, msg.s, record))

\* A mutant of append: a rendering error is swallowed and the record dropped.
append_swallow(self, record) ==
    IF below_threshold(self, record) THEN Dropped
    ELSE LET level == level_mapping(record.level)
             enc == encode(self.encoder, record)
             msg == from_utf8(enc.buf)
         IN  IF ~enc.ok \/ ~msg.ok
             THEN [result |-> "Ok", event |-> None, encoded |-> TRUE]
             ELSE Sent(new_event(level, msg.s, record))

append(self, record) ==
    IF below_threshold(self, record) THEN Dropped
    ELSE LET level == level_mapping(record.level)
             enc == encode(self.encoder, record)
         IN  IF ~enc.ok THEN Failed
             ELSE LET msg == from_utf8(enc.buf)
                  IN  IF ~msg.ok THEN Failed
                      ELSE Sent(new_event(level, msg.s, record))

----------------------------------------------------------------------------
(* The sentry client, as far as the appender uses it.                      *)

DsnValid == "https://key@sentry.io/42"

\* A string that is not a DSN.
DsnMalformed == "not a dsn"

Dsns == {DsnValid, DsnMalformed}

\* No init call made, no guard dropped.
Client_new == [inits |-> <<>>, dropped |-> 0]

\* sentry::init(dsn): returns a ClientInitGuard, or does not return (it
\* panics on a string that is not a DSN; the empty string gives a disabled
\* client). The guard is the number of the init call.
sentry_init(d, c) ==
    LET ok == d # DsnMalformed
        c1 == [c EXCEPT !.inits = Append(@, [dsn |-> d, ok |-> ok])]
    IN  [ok |-> ok, guard |-> Len(c1.inits), client |-> c1]

\* A mutant of drop_appender: the guard is leaked.
drop_appender_leak(a, c) == c

\* Dropping the SentryAppender drops its _sentry guard.
drop_appender(a, c) == [c EXCEPT !.dropped = @ + 1]

----------------------------------------------------------------------------
(* SentryAppenderBuilder.                                                  *)

builder == [encoder |-> None, dsn |-> "", threshold |-> None]

encoder(self, e) == [self EXCEPT !.encoder = Some(e)]

dsn(self, d) == [self EXCEPT !.dsn = d]

dsn_string(self, d) == [self EXCEPT !.dsn = d]

\* A mutant of threshold: a threshold already set is kept.
threshold_first_wins(self, t) ==
    IF self.threshold = None THEN [self EXCEPT !.threshold = Some(t)] ELSE self

threshold(self, t) == [self EXCEPT !.threshold = Some(t)]

\* A mutant of build: the client is initialized lazily, not by build.
build_lazy(self, c) ==
    [ok |-> TRUE,
     appender |-> Some([_sentry |-> 0,
                        encoder |-> IF self.encoder = None THEN PatternEncoder("{m}")
                                    ELSE self.encoder[1],
                        threshold |-> IF self.threshold = None THEN "Error"
                                      ELSE self.threshold[1]]),
     client |-> c]

\* A mutant of build: a target sentry::init rejects is swallowed and the
\* appender is built without a client.
build_fallback(self, c) ==
    LET r == sentry_init(self.dsn, c)
    IN  [ok |-> TRUE,
         appender |-> Some([_sentry |-> IF r.ok THEN r.guard ELSE 0,
                            encoder |-> IF self.encoder = None THEN PatternEncoder("{m}")
                                        ELSE self.encoder[1],
                            threshold |-> IF self.threshold = None THEN "Error"
                                          ELSE self.threshold[1]]),
         client |-> r.client]

\* A mutant of build: the unset threshold defaults to Warn.
build_default_warn(self, c) ==
    LET r == sentry_init(self.dsn, c)
    IN  IF ~r.ok THEN [ok |-> FALSE, appender |-> None, client |-> r.client]
        ELSE [ok |-> TRUE,
              appender |-> Some([_sentry |-> r.guard,
                                 encoder |-> IF self.encoder = None THEN PatternEncoder("{m}")
                                             ELSE self.encoder[1],
                                 threshold |-> IF self.threshold = None THEN "Warn"
                                               ELSE self.threshold[1]]),
              client |-> r.client]

\* build(self): ok is FALSE when sentry::init did not return (build unwinds
\* and no SentryAppender exists).
build(self, c) ==
    LET r == sentry_init(self.dsn, c)
    IN  IF ~r.ok THEN [ok |-> FALSE, appender |-> None, client |-> r.client]
        ELSE [ok |-> TRUE,
              appender |-> Some([_sentry |-> r.guard,
                                 encoder |-> IF self.encoder = None THEN PatternEncoder("{m}")
                                             ELSE self.encoder[1],
                                 threshold |-> IF self.threshold = None THEN "Error"
                                               ELSE self.threshold[1]]),
              client |-> r.client]

----------------------------------------------------------------------------
(* SentryAppenderConfig and SentryAppenderDeserializer.                    *)

\* log4rs EncoderConfig values: two pattern encoders and a kind no
\* deserializer is registered for.
EncoderConfigs ==
    {[kind |-> "pattern", pattern |-> "{m}"],
     [kind |-> "pattern", pattern |-> "{l} {m}"],
     [kind |-> "bogus", pattern |-> ""]}

\* deserializers.deserialize(&encoder.kind, encoder.config)
deserializers_deserialize(cfg) ==
    IF cfg.kind = "pattern"
    THEN [ok |-> TRUE, encoder |-> PatternEncoder(cfg.pattern)]
    ELSE [ok |-> FALSE, encoder |-> None]

\* Keys a configuration document may hold besides dsn, encoder and threshold.
UnknownKeys == {"foo"}

\* A configuration document of the appender: each known key present or not,
\* and the other keys it holds.
Docs ==
    [dsn : Opt(Dsns), encoder : Opt(EncoderConfigs), threshold : Opt(LevelFilter),
     unknown : SUBSET UnknownKeys]

\* A mutant of SentryAppenderConfig: keys it does not know are skipped.
SentryAppenderConfig_lenient(doc) ==
    IF doc.dsn = None \/ doc.threshold = None
    THEN [ok |-> FALSE, config |-> None]
    ELSE [ok |-> TRUE,
          config |-> Some([dsn |-> doc.dsn[1], encoder |-> doc.encoder,
                           threshold |-> doc.threshold[1]])]

\* serde's derived Deserialize for SentryAppenderConfig, deny_unknown_fields:
\* dsn and threshold are required, encoder is optional.
SentryAppenderConfig(doc) ==
    IF doc.unknown # {} \/ doc.dsn = None \/ doc.threshold = None
    THEN [ok |-> FALSE, config |-> None]
    ELSE [ok |-> TRUE,
          config |-> Some([dsn |-> doc.dsn[1], encoder |-> doc.encoder,
                           threshold |-> doc.threshold[1]])]

\* A mutant of deserialize: the configured threshold is not passed on.
deserialize_no_threshold(config, c) ==
    LET res == IF config.encoder # None
               THEN deserializers_deserialize(config.encoder[1])
               ELSE [ok |-> TRUE, encoder |-> None]
    IN  IF ~res.ok THEN [result |-> "Err", appender |-> None, client |-> c]
        ELSE LET a0 == builder
                 a1 == IF config.encoder # None THEN encoder(a0, res.encoder) ELSE a0
                 a2 == dsn_string(a1, config.dsn)
                 r == build(a2, c)
             IN  [result |-> IF r.ok THEN "Ok" ELSE "Panic",
                  appender |-> r.appender, client |-> r.client]

\* SentryAppenderDeserializer::deserialize(config, deserializers)
deserialize(config, c) ==
    LET res == IF config.encoder # None
               THEN deserializers_deserialize(config.encoder[1])
               ELSE [ok |-> TRUE, encoder |-> None]
    IN  IF ~res.ok THEN [result |-> "Err", appender |-> None, client |-> c]
        ELSE LET a0 == builder
                 a1 == IF config.encoder # None THEN encoder(a0, res.encoder) ELSE a0
                 a2 == dsn_string(a1, config.dsn)
                 a3 == threshold(a2, config.threshold)
                 r == build(a3, c)
             IN  [result |-> IF r.ok THEN "Ok" ELSE "Panic",
                  appender |-> r.appender, client |-> r.client]

----------------------------------------------------------------------------
(* The lifecycle of one appender: Spec.                                    *)

Threads == {1, 2}

Idle == [pc |-> "idle", record |-> None, level |-> None, msg |-> None]

NoHistory == [path |-> "none",
              set |-> [encoder |-> None, dsn |-> None, threshold |-> None],
              doc |-> None]

Init ==
    /\ pc = "start"
    /\ pending = None
    /\ appender = None
    /\ client = Client_new
    /\ captured = EmptyBag
    /\ how = NoHistory
    /\ log = <<>>
    /\ threads = [t \in Threads |-> Idle]

\* let b = SentryAppender::builder();
NewBuilder ==
    /\ pc = "start"
    /\ pc' = "building"
    /\ pending' = Some(builder)
    /\ how' = [how EXCEPT !.path = "builder"]
    /\ UNCHANGED <<appender, client, captured, log, threads>>

\* b = b.encoder(e);
SetEncoder(e) ==
    /\ pc = "building"
    /\ pending' = Some(encoder(pending[1], e))
    /\ how' = [how EXCEPT !.set.encoder = Some(e)]
    /\ UNCHANGED <<pc, appender, client, captured, log, threads>>

\* b = b.dsn(d);
SetDsn(d) ==
    /\ pc = "building"
    /\ pending' = Some(dsn(pending[1], d))
    /\ how' = [how EXCEPT !.set.dsn = Some(d)]
    /\ UNCHANGED <<pc, appender, client, captured, log, threads>>

\* b = b.threshold(t);
SetThreshold(t) ==
    /\ pc = "building"
    /\ pending' = Some(threshold(pending[1], t))
    /\ how' = [how EXCEPT !.set.threshold = Some(t)]
    /\ UNCHANGED <<pc, appender, client, captured, log, threads>>

\* let sentry = b.build();
Build ==
    /\ pc = "building"
    /\ LET r == build(pending[1], client)
       IN  /\ pc' = IF r.ok THEN "built" ELSE "panicked"
           /\ appender' = r.appender
           /\ client' = r.client
    /\ pending' = None
    /\ UNCHANGED <<captured, how, log, threads>>

\* log4rs loading the appender's entry of a configuration file: serde reads
\* the entry into a SentryAppenderConfig, and deserialize builds the appender.
Deserialize(doc) ==
    /\ pc = "start"
    /\ how' = [how EXCEPT !.path = "deser", !.doc = Some(doc)]
    /\ LET p == SentryAppenderConfig(doc)
       IN  IF ~p.ok
           THEN /\ pc' = "error"
                /\ UNCHANGED <<appender, client>>
           ELSE LET r == deserialize(p.config[1], client)
                IN  /\ pc' = CASE r.result = "Ok" -> "built"
                               [] r.result = "Err" -> "error"
                               [] r.result = "Panic" -> "panicked"
                    /\ appender' = r.appender
                    /\ client' = r.client
    /\ UNCHANGED <<pending, captured, log, threads>>

\* What sentry::capture_event(event) leaves in the client's queue.
capture_event(q, event) == q (+) SetToBag({event})

\* sentry.append(&record), called by one thread at a time.
AppendCall(record) ==
    /\ pc = "built"
    /\ Len(log) < MaxAppends
    /\ LET out == append(appender[1], record)
       IN  /\ captured' = IF out.event = None THEN captured
                          ELSE capture_event(captured, out.event[1])
           /\ log' = Append(log, [record |-> record, out |-> out])
    /\ UNCHANGED <<pc, pending, appender, client, how, threads>>

\* A mutant of flush: the events captured so far are discarded.
flush_discard(self, q) == EmptyBag

\* What flush leaves of the captured events: fn flush(&self) {}
flush(self, q) == q

\* sentry.flush()
Flush ==
    /\ pc = "built"
    /\ captured' = flush(appender[1], captured)
    /\ UNCHANGED <<pc, pending, appender, client, how, log, threads>>

\* drop(sentry)
Destroy ==
    /\ pc = "built"
    /\ \A t \in Threads : threads[t].pc = "idle"
    /\ pc' = "destroyed"
    /\ client' = drop_appender(appender[1], client)
    /\ appender' = None
    /\ UNCHANGED <<pending, captured, how, log, threads>>

Next ==
    \/ NewBuilder
    \/ \E e \in Encoders : SetEncoder(e)
    \/ \E d \in Dsns : SetDsn(d)
    \/ \E t \in LevelFilter : SetThreshold(t)
    \/ Build
    \/ \E doc \in Docs : Deserialize(doc)
    \/ \E record \in FewRecords : AppendCall(record)
    \/ Flush
    \/ Destroy

Spec == Init /\ [][Next]_vars

----------------------------------------------------------------------------
(* One append call on a built appender, for every record: SpecRec.         *)

\* The state after builder().encoder(e).dsn(d).threshold(t).build().
InitBuilt ==
    \E e \in Encoders, t \in LevelFilter :
        LET r == build(threshold(dsn(encoder(builder, e), DsnValid), t), Client_new)
        IN  /\ pc = "built"
            /\ pending = None
            /\ appender = r.appender
            /\ client = r.client
            /\ captured = EmptyBag
            /\ how = [path |-> "builder",
                      set |-> [encoder |-> Some(e), dsn |-> Some(DsnValid),
                               threshold |-> Some(t)],
                      doc |-> None]
            /\ log = <<>>
            /\ threads = [th \in Threads |-> Idle]

\* The first append call on the appender.
AppendOnce(record) ==
    /\ log = <<>>
    /\ AppendCall(record)

NextRec == \E record \in Records : AppendOnce(record)

SpecRec == InitBuilt /\ [][NextRec]_vars

----------------------------------------------------------------------------
(* Threads calling append and flush on one built appender: SpecConc.       *)
(* A call of append is three steps: the threshold check, the rendering,    *)
(* and the building and capturing of the event.                            *)

InFlight == Cardinality({t \in Threads : threads[t].pc # "idle"})

Returns(t, record, out) ==
    /\ log' = Append(log, [record |-> record, out |-> out])
    /\ threads' = [threads EXCEPT ![t] = Idle]

\* Thread t calls append: the threshold check and the level mapping.
AppendEnter(t, record) ==
    /\ pc = "built"
    /\ threads[t].pc = "idle"
    /\ Len(log) + InFlight < MaxAppends
    /\ IF below_threshold(appender[1], record)
       THEN Returns(t, record, Dropped)
       ELSE /\ threads' = [threads EXCEPT ![t] =
                              [pc |-> "render", record |-> Some(record),
                               level |-> Some(level_mapping(record.level)), msg |-> None]]
            /\ UNCHANGED log
    /\ UNCHANGED <<pc, pending, appender, client, captured, how>>

\* Thread t renders the message into its own buffer and reads it as text.
AppendRender(t) ==
    /\ threads[t].pc = "render"
    /\ LET record == threads[t].record[1]
           enc == encode(appender[1].encoder, record)
           msg == from_utf8(enc.buf)
       IN  IF ~enc.ok \/ ~msg.ok
           THEN Returns(t, record, Failed)
           ELSE /\ threads' = [threads EXCEPT ![t].pc = "capture", ![t].msg = Some(msg.s)]
                /\ UNCHANGED log
    /\ UNCHANGED <<pc, pending, appender, client, captured, how>>

\* Thread t builds the event, hands it to sentry::capture_event and returns.
AppendCapture(t) ==
    /\ threads[t].pc = "capture"
    /\ LET record == threads[t].record[1]
           event == new_event(threads[t].level[1], threads[t].msg[1], record)
       IN  /\ captured' = capture_event(captured, event)
           /\ Returns(t, record, Sent(event))
    /\ UNCHANGED <<pc, pending, appender, client, how>>

\* Thread t calls flush.
FlushBy(t) ==
    /\ pc = "built"
    /\ captured' = flush(appender[1], captured)
    /\ UNCHANGED <<pc, pending, appender, client, how, log, threads>>

NextConc ==
    \/ \E t \in Threads, record \in FewRecords : AppendEnter(t, record)
    \/ \E t \in Threads : AppendRender(t)
    \/ \E t \in Threads : AppendCapture(t)
    \/ \E t \in Threads : FlushBy(t)

SpecConc == InitBuilt /\ [][NextConc]_vars

----------------------------------------------------------------------------
(* The specification's vocabulary, used to state the claims.               *)

\* Severities from most to least severe; Off, a threshold no record reaches.
SeverityOrder == <<"Off", "Error", "Warn", "Info", "Debug", "Trace">>

Rank(l) == CHOOSE i \in 1..Len(SeverityOrder) : SeverityOrder[i] = l

\* s is strictly less severe than t.
LessSevere(s, t) == Rank(s) > Rank(t)

\* The canonical mapping of host severities to monitoring severities.
CanonicalImage(l) ==
    CASE l = "Error" -> "Error"
      [] l = "Warn"  -> "Warning"
      [] l = "Info"  -> "Info"
      [] l = "Debug" -> "Debug"
      [] l = "Trace" -> "Debug"

\* Rendering the record with the encoder gives text.
Renders(e, record) == encode(e, record).ok /\ from_utf8(encode(e, record).buf).ok

Calls == 1..Len(log)

\* The events the returned calls report as captured.
RECURSIVE EventsOf(_)
EventsOf(l) ==
    IF l = <<>> THEN EmptyBag
    ELSE (IF Head(l).out.event = None THEN EmptyBag ELSE SetToBag({Head(l).out.event[1]}))
         (+) EventsOf(Tail(l))

\* The call was of a record below the appender's threshold.
Filtered(i) == LessSevere(log[i].record.level, appender[1].threshold)

\* The call was of an eligible record whose rendering succeeds.
Forwardable(i) ==
    /\ ~LessSevere(log[i].record.level, appender[1].threshold)
    /\ Renders(appender[1].encoder, log[i].record)

\* The call was of an eligible record whose rendering fails.
RenderFails(i) ==
    /\ ~LessSevere(log[i].record.level, appender[1].threshold)
    /\ ~Renders(appender[1].encoder, log[i].record)

----------------------------------------------------------------------------
(* Claims.                                                                 *)

\* C1: a record strictly less severe than the threshold is dropped: append
\* returns Ok without calling the encoder and without capturing an event,
\* whatever the threshold (Off included) and the encoder.
C1_BelowThresholdDropped ==
    pc = "built" =>
        /\ \A i \in Calls :
              Filtered(i) => /\ log[i].out.result = "Ok"
                             /\ ~log[i].out.encoded
                             /\ log[i].out.event = None
        /\ (\A i \in Calls : Filtered(i)) => captured = EmptyBag

\* C1 witness: a record below the threshold was appended to an appender
\* whose encoder fails when called.
C1_Witness ==
    /\ pc = "built"
    /\ appender[1].encoder = FailingEncoder
    /\ \E i \in Calls : Filtered(i) /\ log[i].out.result = "Ok"

\* C2: every eligible record (equal severity included) whose rendering
\* succeeds gives exactly one captured event, of the canonical severity, so
\* the captured events are as many as the eligible, rendered records.
C2_EligibleForwardedOnce ==
    pc = "built" =>
        /\ \A i \in Calls :
              Forwardable(i) =>
                  /\ log[i].out.result = "Ok"
                  /\ log[i].out.event # None
                  /\ log[i].out.event[1].level = CanonicalImage(log[i].record.level)
        /\ captured = EventsOf(log)
        /\ BagCardinality(captured) = Cardinality({i \in Calls : Forwardable(i)})

\* C2 witness: a Trace record at threshold Trace and one more eligible
\* record were both captured.
C2_Witness ==
    /\ pc = "built"
    /\ appender[1].threshold = "Trace"
    /\ Len(log) = 2
    /\ log[1].record.level = "Trace"
    /\ Forwardable(1) /\ Forwardable(2)
    /\ BagCardinality(captured) = 2

\* C3: the event of a forwarded record has the rendered text as message and
\* the record's target as logger; extra has "file" exactly when the record
\* has a file (a string), "line" exactly when it has a line (a number), and
\* tags has "module_path" exactly when the record has a module path.
C3_EventFields ==
    \A i \in Calls :
        log[i].out.event # None =>
            LET r == log[i].record
                e == log[i].out.event[1]
            IN  /\ e.message = Some(encode(appender[1].encoder, r).buf)
                /\ e.logger = Some(r.target)
                /\ DOMAIN e.extra = {k \in {"file"} : r.file # None}
                                        \cup {k \in {"line"} : r.line # None}
                /\ r.file # None => e.extra["file"] = [String |-> r.file[1]]
                /\ r.line # None => e.extra["line"] = [Number |-> r.line[1]]
                /\ DOMAIN e.tags = {k \in {"module_path"} : r.module_path # None}
                /\ r.module_path # None => e.tags["module_path"] = r.module_path[1]

\* C3 witness: a record with a file but neither line nor module path was
\* forwarded with a decorated message.
C3_Witness ==
    /\ Len(log) = 1
    /\ log[1].out.event # None
    /\ log[1].record.file # None
    /\ log[1].record.line = None
    /\ log[1].record.module_path = None
    /\ log[1].out.event[1].message # Some(log[1].record.args)

\* C4: an eligible record whose rendering fails makes append return Err and
\* capture nothing, and the calls after it give what they give on an
\* appender that never saw the failed call.
C4_RenderFailure ==
    pc = "built" =>
        /\ \A i \in Calls :
              RenderFails(i) => /\ log[i].out.result = "Err"
                                /\ log[i].out.event = None
        /\ \A i \in Calls :
              ~RenderFails(i) =>
                  log[i].out = (IF Forwardable(i)
                                THEN Sent(new_event(CanonicalImage(log[i].record.level),
                                                    encode(appender[1].encoder, log[i].record).buf,
                                                    log[i].record))
                                ELSE Dropped)
        /\ captured = EventsOf(SelectSeq(log, LAMBDA c : c.out.result = "Ok"))

\* C4 witness: a call failed on text that is not UTF-8 and a later call on
\* the same appender was captured.
C4_Witness ==
    /\ pc = "built"
    /\ Len(log) = 2
    /\ RenderFails(1)
    /\ encode(appender[1].encoder, log[1].record).ok
    /\ Forwardable(2)
    /\ BagCardinality(captured) = 1

\* The configuration document is one serde and the encoder registry accept.
Accepted(doc) ==
    /\ doc.unknown = {}
    /\ doc.dsn # None
    /\ doc.threshold # None
    /\ doc.encoder # None => doc.encoder[1].kind = "pattern"

\* The connection-target construction hands to the monitoring client, if
\* construction got as far as that.
TargetGiven ==
    CASE how.path = "builder" -> Some(IF how.set.dsn = None THEN "" ELSE how.set.dsn[1])
      [] how.path = "deser" /\ Accepted(how.doc[1]) -> how.doc[1].dsn
      [] OTHER -> None

\* Construction has ended, with an appender or without.
Constructed == pc \notin {"start", "building"}

\* The monitoring client rejects the connection-target.
Rejected(d) == ~sentry_init(d, Client_new).ok

\* C5: when the client's initialization rejects the connection-target,
\* build and deserialize end in a failure (the unwinding of build) with no
\* appender; no appender exists on which a first append could meet it.
C5_RejectedTargetFailsConstruction ==
    (Constructed /\ TargetGiven # None /\ Rejected(TargetGiven[1])) =>
        /\ pc = "panicked"
        /\ appender = None
        /\ client.inits = <<[dsn |-> TargetGiven[1], ok |-> FALSE]>>
        /\ log = <<>>
        /\ captured = EmptyBag

\* C5 witness: deserialize was given an accepted document whose dsn the
\* client rejects.
C5_Witness ==
    /\ how.path = "deser"
    /\ Accepted(how.doc[1])
    /\ Rejected(how.doc[1].dsn[1])
    /\ pc = "panicked"

\* C6: after any setter calls and build, the appender's threshold is the last
\* threshold given, or Error; its encoder the last given, or the pattern
\* "{m}", which renders the bare message; the client was initialized with the
\* last target given. With no threshold given a Warn record is dropped and an
\* Error record that renders is captured.
C6_LastSetterWins ==
    (how.path = "builder" /\ pc = "built") =>
        LET a == appender[1] IN
        /\ a.threshold = (IF how.set.threshold = None THEN "Error" ELSE how.set.threshold[1])
        /\ a.encoder = (IF how.set.encoder = None THEN [kind |-> "pattern", pattern |-> "{m}"]
                        ELSE how.set.encoder[1])
        /\ client.inits = <<[dsn |-> TargetGiven[1], ok |-> TRUE]>>
        /\ \A i \in Calls :
              /\ (how.set.threshold = None /\ log[i].record.level = "Warn")
                     => log[i].out = Dropped
              /\ (how.set.threshold = None /\ log[i].record.level = "Error"
                  /\ Renders(a.encoder, log[i].record))
                     => log[i].out.event # None
              /\ (how.set.encoder = None /\ log[i].out.event # None)
                     => log[i].out.event[1].message = Some(log[i].record.args)

\* C6 witness: an appender built with no threshold and no encoder given
\* dropped a Warn record and captured an Error record.
C6_Witness ==
    /\ how.path = "builder" /\ pc = "built"
    /\ how.set.threshold = None /\ how.set.encoder = None
    /\ \E i, j \in Calls :
          /\ log[i].record.level = "Warn" /\ log[i].out = Dropped
          /\ log[j].record.level = "Error" /\ log[j].out.event # None

\* builder().target(x).threshold(t)[.encoder(e)].build()
ByBuilder(x, t, e) ==
    LET b0 == threshold(dsn(builder, x), t)
        b1 == IF e = None THEN b0 ELSE encoder(b0, e[1])
    IN  build(b1, Client_new)

\* The deserializer on {dsn: x, threshold: t, encoder: cfg or unset}.
ByDeserializer(x, t, cfg) ==
    LET p == SentryAppenderConfig([dsn |-> Some(x), encoder |-> cfg,
                                   threshold |-> Some(t), unknown |-> {}])
    IN  IF p.ok THEN deserialize(p.config[1], Client_new)
        ELSE [result |-> "Err", appender |-> None, client |-> Client_new]

\* The encoder configuration cfg (or none) stands for the encoder e (or none).
StandsFor(cfg, e) ==
    \/ cfg = None /\ e = None
    \/ /\ cfg # None /\ e # None
       /\ cfg[1].kind = "pattern"
       /\ e[1] = [kind |-> "pattern", pattern |-> cfg[1].pattern]

\* C7: the appender the deserializer builds from {dsn, threshold, encoder}
\* and the appender the builder builds from the same values give every
\* appended record the same outcome: dropped or not, result, and event; and
\* one construction fails exactly when the other does.
C7_PathsEquivalent ==
    /\ (how.path = "deser" /\ Constructed /\ Accepted(how.doc[1])) =>
          LET doc == how.doc[1]
              e == IF doc.encoder = None THEN None
                   ELSE Some([kind |-> "pattern", pattern |-> doc.encoder[1].pattern])
              b == ByBuilder(doc.dsn[1], doc.threshold[1], e)
          IN  /\ b.ok = (pc # "panicked")
              /\ pc = "built" =>
                    \A record \in FewRecords :
                        append(appender[1], record) = append(b.appender[1], record)
              /\ b.ok => \A i \in Calls : log[i].out = append(b.appender[1], log[i].record)
    /\ (how.path = "builder" /\ Constructed
            /\ how.set.dsn # None /\ how.set.threshold # None) =>
          \A cfg \in Opt(EncoderConfigs) :
              StandsFor(cfg, how.set.encoder) =>
                  LET d == ByDeserializer(how.set.dsn[1], how.set.threshold[1], cfg)
                  IN  /\ (d.result = "Ok") = (pc # "panicked")
                      /\ d.result = "Ok" =>
                            \A i \in Calls :
                                log[i].out = append(d.appender[1], log[i].record)

\* C7 witness: an appender deserialized with threshold Info and no encoder
\* dropped one record and captured another.
C7_Witness ==
    /\ how.path = "deser" /\ pc = "built"
    /\ how.doc[1].encoder = None
    /\ how.doc[1].threshold = Some("Info")
    /\ \E i, j \in Calls : log[i].out = Dropped /\ log[j].out.event # None

\* C8: a configuration document with a key other than dsn, encoder and
\* threshold fails construction: no appender, and no client initialized.
C8_UnknownKeyRejected ==
    (how.path = "deser" /\ how.doc[1].unknown # {}) =>
        /\ pc = "error"
        /\ appender = None
        /\ client = Client_new
        /\ log = <<>>

\* C8 witness: a document that is complete and valid but for one more key
\* was rejected.
C8_Witness ==
    /\ how.path = "deser"
    /\ how.doc[1].unknown = {"foo"}
    /\ how.doc[1].dsn = Some(DsnValid)
    /\ how.doc[1].threshold = Some("Error")
    /\ how.doc[1].encoder = None
    /\ pc = "error"

\* The state part of C9.
C9_Handle ==
    /\ Len(client.inits) <= 1
    /\ client.dropped <= 1
    /\ appender # None =>
          /\ client.inits = <<[dsn |-> TargetGiven[1], ok |-> TRUE]>>
          /\ appender[1]._sentry = 1
          /\ client.dropped = 0
    /\ log # <<>> => (Len(client.inits) = 1 /\ client.inits[1].ok)
    /\ pc = "destroyed" => (client.dropped = 1 /\ appender = None)
    /\ pc # "destroyed" => client.dropped = 0
    /\ pc \in {"start", "building"} => client.inits = <<>>

\* C9: the client is initialized once, by build, before any append; the
\* appender holds the guard while it exists and the guard is dropped once,
\* when the appender is; no append is made once the guard is dropped.
C9_InitOnceReleaseOnce ==
    /\ []C9_Handle
    /\ [][/\ log' # log => (appender # None /\ client.dropped = 0 /\ appender' = appender)
          /\ client.inits' # client.inits => pc \in {"start", "building"}
          /\ client.dropped' # client.dropped => (pc = "built" /\ pc' = "destroyed")]_vars

\* C9 witness: an appender that captured an event was destroyed.
C9_Witness ==
    /\ pc = "destroyed"
    /\ client.dropped = 1
    /\ captured # EmptyBag

\* C10: under every interleaving of the threads' append and flush calls the
\* appender is never changed, flush changes nothing, each returned call
\* gives what append gives for its record alone, and the captured events are
\* those of the returned calls, as in any sequential order of them.
C10_ConcurrentAppends ==
    /\ [](/\ pc = "built"
          /\ \A i \in Calls : log[i].out = append(appender[1], log[i].record)
          /\ captured = EventsOf(log))
    /\ [][appender' = appender /\ client' = client]_vars

\* C10 witness: both threads are inside append, past rendering, with
\* different records.
C10_Witness ==
    /\ threads[1].pc = "capture"
    /\ threads[2].pc = "capture"
    /\ threads[1].record # threads[2].record

====
